---- MODULE Spec2Model ----
(***************************************************************************)
(* Model of neo154/observer: the Task run-condition gate                   *)
(* (src/observer/task.py) on top of the Storage location orchestrator      *)
(* (src/observer/storage/storage.py).                                      *)
(*                                                                         *)
(* Each Task runs in its own process with its own Storage; the processes   *)
(* share one filesystem.  A call of check_run_conditions is a sequence of  *)
(* steps, one per filesystem operation, so that the steps of two processes *)
(* interleave.  The StorageLocation backend (observer.storage.models:      *)
(* exists, is_file, create, rotate, join_loc) is modelled from its         *)
(* description: a location exists iff its path is in the filesystem.       *)
(***************************************************************************)
EXTENDS Naturals, Sequences, FiniteSets, TLC

\* ------------------------------------------------------------------ bounds

\* Number of check_run_conditions calls made in a run of the model, over all
\* the processes.
MaxCalls == 2

\* Number of _prep_run calls made in a run of the model, over all the processes.
MaxRuns == 1

Procs == {1, 2}

RECURSIVE SumOver(_, _)
SumOver(f, S) ==
    IF S = {} THEN 0
    ELSE LET x == CHOOSE y \in S : TRUE IN f[x] + SumOver(f, S \ {x})

\* ------------------------------------------------------- locations (paths)

\* The value of an unset reference (Python's None).
None == <<>>

\* Storage.report_date_str: the run date formatted with date_postfix_fmt.
report_date_str == "2022_06_05"

\* Storage.job_desc default, as a name prefix (a sequence of name tokens).
job_desc == <<"generic">>

\* BaseTask.task_name of the tasks modelled: both processes run the same job.
task_name == <<"job">>

\* The parent locations of the StorageConfig.
mutex_loc == "mutex"
archive_loc == "archive"
data_loc == "data"

\* StorageLocation.join_loc: the location of a name under a parent.
JoinLoc(parent, name) == <<parent, name>>

\* Storage.gen_location_ref: parent / "{name_prefix}_{report_date_str}.{suffix}".
gen_location_ref(storage_loc, suffix, name_prefix) ==
    JoinLoc(storage_loc, name_prefix \o <<"_", report_date_str, ".", suffix>>)

\* The halt-file and required-file groups of the StorageConfig.
H1 == JoinLoc(data_loc, <<"stop1">>)
H2 == JoinLoc(data_loc, <<"stop2">>)
R1 == JoinLoc(data_loc, <<"dep1">>)
R2 == JoinLoc(data_loc, <<"dep2">>)
ConfigHaltFiles == <<H1, H2>>
ConfigRequiredFiles == <<R1, R2>>

\* The files that may be on disk when the processes start.
InitFiles ==
    { gen_location_ref(archive_loc, "tar.bz2", task_name),
      gen_location_ref(mutex_loc, "mutex", task_name),
      H1, H2, R1, R2 }

\* ------------------------------------------------------------------- state

VARIABLES
    fs,              \* the shared filesystem: the set of paths of existing files
    has_mutex,       \* BaseTask.__has_mutex, per process
    has_archive,     \* BaseTask.__has_archive
    interactive,     \* BaseTask.__interactive
    job_run_check,   \* BaseTask.__job_run_check: the "conditions passed" flag
    mutex_file,      \* Storage._mutex_file (None until bound)
    archive_file,    \* Storage._archive_file
    halt_files,      \* Storage._halt_files
    required_files,  \* Storage._required_files
    pc,              \* position of the process in check_run_conditions
    override,        \* the override argument of the running call
    alive,           \* FALSE once sys.exit has ended the process
    exit_code,       \* the code given to sys.exit
    last_op,         \* the operation called last
    result,          \* how it ended: "returned" or the exception raised
    log,             \* records logged by the operation called last
    calls,           \* number of check_run_conditions calls made
    runs,            \* number of _prep_run calls made, each executing main()
    main_result,     \* what main() did when last executed: "returned" or "raised"
    obs,             \* history: what was on disk at each step of the call
    start_fs,        \* history: the filesystem when the call started
    start_flag,      \* history: job_run_check when the call started
    main_unchecked,  \* history: main() was executed while job_run_check was false
    storage,         \* a Storage used on its own: the record of its attributes
    sop,             \* history: the Storage operation called last, its arguments,
                     \* its outcome and the Storage and the disk it was called on
    arch             \* the create_archive call in progress

vars == << fs, has_mutex, has_archive, interactive, job_run_check, mutex_file,
           archive_file, halt_files, required_files, pc, override,
           alive, exit_code, last_op, result, log, calls, runs,
           main_result, obs, start_fs, start_flag, main_unchecked,
           storage, sop, arch >>

config == << has_mutex, has_archive, interactive, halt_files, required_files >>
history == << obs, start_fs, start_flag, main_unchecked >>
stor == << storage, sop, arch >>

\* ------------------------------------------------- StorageLocation backend

\* StorageLocation.exists
Exists(loc) == loc \in fs

\* StorageLocation.is_file
IsFile(loc) == loc \in fs

\* The path an existing file is renamed to by StorageLocation.rotate.
Rotated(loc) == <<loc[1], loc[2] \o <<".", "old">>>>

\* StorageLocation.rotate: the file is renamed aside.
Rotate(loc) == (fs \ {loc}) \cup {Rotated(loc)}

\* StorageLocation.create: the file exists afterwards; not create-exclusive.
Create(loc) == fs \cup {loc}

\* --------------------------------------------------------------- Init

\* Parent location of the temporary files of the StorageConfig.
tmp_loc == "tmp"

\* Storage.__init__ (lines 39-69) for a job_desc and the three groups of the
\* StorageConfig: the record of the attributes it sets.  The mutex reference
\* is None (line 62); the archive file is named after job_desc (lines 64-65).
\* tmp_local: the tmp location of the StorageConfig is a LocalFile.
NewStorage(jd, afiles, rfiles, hfiles) ==
    [ job_desc       |-> jd,
      mutex_loc      |-> mutex_loc,
      mutex_file     |-> None,
      archive_loc    |-> archive_loc,
      archive_file   |-> gen_location_ref(archive_loc, "tar.bz2", jd),
      tmp_loc        |-> tmp_loc,
      tmp_local      |-> TRUE,
      archive_files  |-> afiles,
      required_files |-> rfiles,
      halt_files     |-> hfiles ]

\* The operation did not follow an add_to_archive_list.
NoAdd == [ added |-> FALSE, arg |-> None, storage |-> None ]

\* No Storage operation has been called yet.
NoOp ==
    [ name |-> "none", arg |-> None, result |-> "none", log |-> <<>>,
      storage |-> None, fs |-> {}, prev |-> NoAdd ]

\* No create_archive call is in progress.
NoArchive ==
    [ pc |-> "idle", files |-> <<>>, target |-> None, cleanup |-> FALSE,
      tmp |-> None, moved |-> FALSE ]

\* The history of a call no step of which has run: nothing was looked at.
Unseen ==
    [ archive |-> "unseen", rotate |-> "unseen", gate |-> FALSE, halt |-> {},
      missing |-> {}, mutex |-> "unseen", create |-> "unseen", prior |-> "none" ]

Range(seq) == { seq[i] : i \in 1..Len(seq) }

\* The Tasks as constructed (BaseTask.__init__, lines 36-52).  Process 1 is a
\* Task with any has_mutex and has_archive; the other processes are further
\* instances of the job constructed with the defaults of line 37.
TaskFlags ==
    { f \in [Procs -> BOOLEAN] : \A t \in Procs \ {1} : f[t] }

Init ==
    /\ fs \in SUBSET InitFiles
    /\ has_mutex \in TaskFlags
    /\ has_archive \in TaskFlags
    /\ interactive \in [Procs -> BOOLEAN]
    /\ job_run_check = [t \in Procs |-> FALSE]
    /\ mutex_file = [t \in Procs |-> None]
    /\ archive_file = [t \in Procs |-> gen_location_ref(archive_loc, "tar.bz2", job_desc)]
    /\ halt_files = [t \in Procs |-> ConfigHaltFiles]
    /\ required_files = [t \in Procs |-> ConfigRequiredFiles]
    /\ pc = [t \in Procs |-> "idle"]
    /\ override = [t \in Procs |-> FALSE]
    /\ alive = [t \in Procs |-> TRUE]
    /\ exit_code = [t \in Procs |-> 0]
    /\ last_op = [t \in Procs |-> "none"]
    /\ result = [t \in Procs |-> "none"]
    /\ log = [t \in Procs |-> <<>>]
    /\ calls = [t \in Procs |-> 0]
    /\ runs = [t \in Procs |-> 0]
    /\ main_result = [t \in Procs |-> "none"]
    /\ obs = [t \in Procs |-> Unseen]
    /\ start_fs = [t \in Procs |-> {}]
    /\ start_flag = [t \in Procs |-> FALSE]
    /\ main_unchecked = [t \in Procs |-> FALSE]
    /\ storage = NewStorage(job_desc, <<>>, ConfigRequiredFiles, ConfigHaltFiles)
    /\ sop = NoOp
    /\ arch = NoArchive

\* ------------------------------------------------------------- helpers

\* Mutant of ExitCode: the test of interactive is inverted.
ExitCodeInverted(t, code) ==
    IF interactive[t]
    THEN /\ alive' = [alive EXCEPT ![t] = FALSE]
         /\ exit_code' = [exit_code EXCEPT ![t] = code]
         /\ result' = [result EXCEPT ![t] = "SystemExit"]
    ELSE /\ result' = [result EXCEPT ![t] = "RuntimeError"]
         /\ UNCHANGED <<alive, exit_code>>

\* Mutant of ExitCode: sys.exit() is called without the code.
ExitCodeNoCode(t, code) ==
    IF ~interactive[t]
    THEN /\ alive' = [alive EXCEPT ![t] = FALSE]
         /\ exit_code' = [exit_code EXCEPT ![t] = 0]
         /\ result' = [result EXCEPT ![t] = "SystemExit"]
    ELSE /\ result' = [result EXCEPT ![t] = "RuntimeError"]
         /\ UNCHANGED <<alive, exit_code>>

\* _exit_code(interactive, code): sys.exit(code) unless interactive, where it
\* raises RuntimeError("Cannot run!").  Either way the caller does not go on.
ExitCode(t, code) ==
    IF ~interactive[t]
    THEN /\ alive' = [alive EXCEPT ![t] = FALSE]
         /\ exit_code' = [exit_code EXCEPT ![t] = code]
         /\ result' = [result EXCEPT ![t] = "SystemExit"]
    ELSE /\ result' = [result EXCEPT ![t] = "RuntimeError"]
         /\ UNCHANGED <<alive, exit_code>>

\* line 143: the archive file is bound and is a file on disk.
ArchiveFound(af) == af # None /\ IsFile(af)

\* Mutant of StopFileLoop: the loop stops one short of the end of the list.
RECURSIVE StopFileLoopShort(_, _)
StopFileLoopShort(files, i) ==
    IF i >= Len(files) THEN 0
    ELSE IF IsFile(files[i]) THEN i
    ELSE StopFileLoopShort(files, i + 1)

\* lines 149-153: the index of the first halt file that is on disk, from index
\* i on; 0 when the loop ends without finding one.
RECURSIVE StopFileLoop(_, _)
StopFileLoop(files, i) ==
    IF i > Len(files) THEN 0
    ELSE IF IsFile(files[i]) THEN i
    ELSE StopFileLoop(files, i + 1)

\* Mutant of RequiredLoop: the loop returns at the first file that is missing.
RECURSIVE RequiredLoopShort(_, _, _, _)
RequiredLoopShort(files, i, passes, warnings) ==
    IF i > Len(files) THEN [passes |-> passes, log |-> warnings]
    ELSE IF ~Exists(files[i])
         THEN [passes |-> FALSE,
               log |-> Append(warnings, <<"Required file not found", files[i]>>)]
         ELSE RequiredLoopShort(files, i + 1, passes, warnings)

\* Storage.check_required_files (lines 500-513): the loop from index i on, with
\* the value of passes and the warnings logged so far.  Every file is examined.
RECURSIVE RequiredLoop(_, _, _, _)
RequiredLoop(files, i, passes, warnings) ==
    IF i > Len(files) THEN [passes |-> passes, log |-> warnings]
    ELSE IF ~Exists(files[i])
         THEN RequiredLoop(files, i + 1, FALSE,
                           Append(warnings, <<"Required file not found", files[i]>>))
         ELSE RequiredLoop(files, i + 1, passes, warnings)

\* Mutant of check_required_files: passes is never set to False.
check_required_files_always(t) ==
    [passes |-> TRUE, log |-> RequiredLoop(required_files[t], 1, TRUE, <<>>).log]

check_required_files(t) == RequiredLoop(required_files[t], 1, TRUE, <<>>)

\* Mutant of MutexFound: the test of exists() is inverted.
MutexFoundInverted(t) == mutex_file[t] # None /\ ~Exists(mutex_file[t])

\* line 159: the mutex is bound and exists on disk.
MutexFound(t) == mutex_file[t] # None /\ Exists(mutex_file[t])

\* --------------------------------------------------------------- Storage

\* Storage.mutex setter (lines 250-260), called by the owner of a Storage whose
\* Task does not bind the mutex itself; name_prefix None stands for job_desc.
SetMutex(t) ==
    /\ alive[t] /\ pc[t] = "idle" /\ calls[t] = 0 /\ runs[t] = 0 /\ ~has_mutex[t]
    /\ mutex_file[t] = None
    /\ mutex_file' = [mutex_file EXCEPT
                        ![t] = gen_location_ref(mutex_loc, "mutex", job_desc)]
    /\ UNCHANGED << fs, config, stor, job_run_check, archive_file, pc, override,
                    alive, exit_code, last_op, result, log, calls, runs,
                    main_result, history >>

\* ------------------------------------------- BaseTask.check_run_conditions
\* A step of a call ends with its one operation on a file another process may
\* write (the archive file, the mutex file); the halt and required files are
\* written by no process.

\* lines 137-140: the references the call binds to the task name.
BoundMutex(t) ==
    IF has_mutex[t] THEN gen_location_ref(mutex_loc, "mutex", task_name)
    ELSE mutex_file[t]

BoundArchive(t) ==
    IF has_archive[t] THEN gen_location_ref(archive_loc, "tar.bz2", task_name)
    ELSE archive_file[t]

\* History: how the latest check_run_conditions call on the Task ended, read
\* from what that call saw: "none" when there was none, "passed" when it
\* created the mutex and returned, "halted" when it ended through _exit_code
\* (at the archive check without override, or at the gate), "raised" when
\* rotate() or create() raised.
PriorCall(t) ==
    IF calls[t] = 0 THEN "none"
    ELSE IF obs[t].create = "done" THEN "passed"
    ELSE IF obs[t].create # "unseen" THEN "raised"
    ELSE IF obs[t].gate THEN "halted"
    ELSE IF obs[t].archive = "found" /\ ~override[t] THEN "halted"
    ELSE "raised"

\* lines 130-147: the call starts, binds the mutex and archive references, and
\* looks for the archive file: found, it halts the call unless override.
CallCheck(t) ==
    /\ alive[t] /\ pc[t] = "idle" /\ SumOver(calls, Procs) < MaxCalls
    /\ \E ov \in BOOLEAN :
         /\ override' = [override EXCEPT ![t] = ov]
         /\ IF ArchiveFound(BoundArchive(t))
            THEN /\ log' = [log EXCEPT ![t] = << <<"ARCHIVE_FILE_FOUND", BoundArchive(t)>> >>]
                 /\ IF ~ov
                    THEN /\ ExitCode(t, 0)
                         /\ pc' = [pc EXCEPT ![t] = "idle"]
                    ELSE /\ pc' = [pc EXCEPT ![t] = "rotate"]
                         /\ result' = [result EXCEPT ![t] = "running"]
                         /\ UNCHANGED << alive, exit_code >>
            ELSE /\ log' = [log EXCEPT ![t] = <<>>]
                 /\ pc' = [pc EXCEPT ![t] = "gate"]
                 /\ result' = [result EXCEPT ![t] = "running"]
                 /\ UNCHANGED << alive, exit_code >>
    /\ mutex_file' = [mutex_file EXCEPT ![t] = BoundMutex(t)]
    /\ archive_file' = [archive_file EXCEPT ![t] = BoundArchive(t)]
    /\ calls' = [calls EXCEPT ![t] = @ + 1]
    /\ last_op' = [last_op EXCEPT ![t] = "check_run_conditions"]
    /\ obs' = [obs EXCEPT ![t] =
                 [Unseen EXCEPT !.archive = IF BoundArchive(t) \in fs
                                            THEN "found" ELSE "absent",
                                !.prior = PriorCall(t)]]
    /\ start_fs' = [start_fs EXCEPT ![t] = fs]
    /\ start_flag' = [start_flag EXCEPT ![t] = job_run_check[t]]
    /\ UNCHANGED << fs, config, stor, job_run_check, runs, main_result, main_unchecked >>

\* Mutant of RotateArchive: the call goes on without rotating the archive.
RotateArchiveSkipped(t) ==
    /\ pc[t] = "rotate"
    /\ pc' = [pc EXCEPT ![t] = "gate"]
    /\ obs' = [obs EXCEPT ![t].rotate =
                 IF archive_file[t] \in fs THEN "kept" ELSE "gone"]
    /\ UNCHANGED << fs, config, stor, job_run_check, mutex_file, archive_file, override,
                    alive, exit_code, last_op, result, log, calls, runs,
                    main_result, start_fs, start_flag, main_unchecked >>

\* Mutant of RotateArchive: the archive file is removed, not renamed aside.
RotateArchiveDeletes(t) ==
    /\ pc[t] = "rotate"
    /\ fs' = fs \ {archive_file[t]}
    /\ pc' = [pc EXCEPT ![t] = "gate"]
    /\ obs' = [obs EXCEPT ![t].rotate =
                 IF archive_file[t] \in fs THEN "rotated" ELSE "gone"]
    /\ UNCHANGED << config, stor, job_run_check, mutex_file, archive_file, override,
                    alive, exit_code, last_op, result, log, calls, runs,
                    main_result, start_fs, start_flag, main_unchecked >>

\* line 148: archive_file.rotate().  When another process has moved the file
\* away since line 143, the backend either raises or does nothing.
RotateArchive(t) ==
    /\ pc[t] = "rotate"
    /\ IF IsFile(archive_file[t])
       THEN /\ fs' = Rotate(archive_file[t])
            /\ pc' = [pc EXCEPT ![t] = "gate"]
            /\ UNCHANGED result
       ELSE /\ UNCHANGED fs
            /\ \/ /\ pc' = [pc EXCEPT ![t] = "gate"]
                  /\ UNCHANGED result
               \/ /\ pc' = [pc EXCEPT ![t] = "idle"]
                  /\ result' = [result EXCEPT ![t] = "OSError"]
    /\ obs' = [obs EXCEPT ![t].rotate =
                 IF archive_file[t] \in fs'
                 THEN "kept"
                 ELSE IF archive_file[t] \in fs THEN "rotated" ELSE "gone"]
    /\ UNCHANGED << config, stor, job_run_check, mutex_file, archive_file, override,
                    alive, exit_code, last_op, log, calls, runs, main_result,
                    start_fs, start_flag, main_unchecked >>

\* lines 149-161: the halt files, then the required files, then the mutex.
CheckGate(t) ==
    /\ pc[t] = "gate"
    /\ LET stop == StopFileLoop(halt_files[t], 1)
           req  == check_required_files(t)
       IN  IF stop # 0
           THEN /\ log' = [log EXCEPT ![t] =
                             Append(@, <<"STOP_FILE_FOUND", halt_files[t][stop]>>)]
                /\ ExitCode(t, 0)
                /\ pc' = [pc EXCEPT ![t] = "idle"]
           ELSE IF ~req.passes
           THEN /\ log' = [log EXCEPT ![t] =
                             Append(@ \o req.log, <<"DEP_FILES_MISSING", None>>)]
                /\ ExitCode(t, 0)
                /\ pc' = [pc EXCEPT ![t] = "idle"]
           ELSE IF MutexFound(t)
           THEN /\ log' = [log EXCEPT ![t] = Append(@, <<"MUTEX_FOUND", None>>)]
                /\ ExitCode(t, 0)
                /\ pc' = [pc EXCEPT ![t] = "idle"]
           ELSE /\ pc' = [pc EXCEPT ![t] = "create"]
                /\ UNCHANGED << log, alive, exit_code, result >>
    /\ obs' = [obs EXCEPT ![t] =
                 [@ EXCEPT !.gate = TRUE,
                           !.halt = Range(halt_files[t]) \cap fs,
                           !.missing = Range(required_files[t]) \ fs,
                           !.mutex = IF mutex_file[t] = None THEN "unbound"
                                     ELSE IF mutex_file[t] \in fs THEN "found"
                                     ELSE "absent"]]
    /\ UNCHANGED << fs, config, stor, job_run_check, mutex_file, archive_file, override,
                    last_op, calls, runs, main_result, start_fs, start_flag,
                    main_unchecked >>

\* Mutant of CreateMutex: an atomic create-exclusive, which halts the call when
\* the mutex file is there by now.
CreateMutexExclusive(t) ==
    /\ pc[t] = "create"
    /\ mutex_file[t] # None
    /\ pc' = [pc EXCEPT ![t] = "idle"]
    /\ IF Exists(mutex_file[t])
       THEN /\ log' = [log EXCEPT ![t] = Append(@, <<"MUTEX_FOUND", None>>)]
            /\ ExitCode(t, 0)
            /\ UNCHANGED << fs, job_run_check, obs >>
       ELSE /\ fs' = Create(mutex_file[t])
            /\ job_run_check' = [job_run_check EXCEPT ![t] = TRUE]
            /\ log' = [log EXCEPT ![t] = Append(@, <<"CONDITIONS_PASSED", None>>)]
            /\ result' = [result EXCEPT ![t] = "returned"]
            /\ obs' = [obs EXCEPT ![t].create = "done"]
            /\ UNCHANGED << alive, exit_code >>
    /\ UNCHANGED << config, stor, mutex_file, archive_file, override,
                    last_op, calls, runs, main_result,
                    start_fs, start_flag, main_unchecked >>

\* lines 162-164: the flag is set, then the mutex is created.  mutex.create()
\* on an unbound mutex (None) raises AttributeError; on a bound one it creates
\* the file or fails (no write permission) with an OSError.
CreateMutex(t) ==
    /\ pc[t] = "create"
    /\ job_run_check' = [job_run_check EXCEPT ![t] = TRUE]
    /\ pc' = [pc EXCEPT ![t] = "idle"]
    /\ IF mutex_file[t] = None
       THEN /\ result' = [result EXCEPT ![t] = "AttributeError"]
            /\ obs' = [obs EXCEPT ![t].create = "unbound"]
            /\ UNCHANGED << fs, log >>
       ELSE \/ /\ fs' = Create(mutex_file[t])
               /\ log' = [log EXCEPT ![t] = Append(@, <<"CONDITIONS_PASSED", None>>)]
               /\ result' = [result EXCEPT ![t] = "returned"]
               /\ obs' = [obs EXCEPT ![t].create = "done"]
            \/ /\ result' = [result EXCEPT ![t] = "OSError"]
               /\ obs' = [obs EXCEPT ![t].create = "failed"]
               /\ UNCHANGED << fs, log >>
    /\ UNCHANGED << config, stor, mutex_file, archive_file, override,
                    alive, exit_code, last_op, calls, runs, main_result,
                    start_fs, start_flag, main_unchecked >>

\* ------------------------------------------------ the work invocation

\* BaseTask._check_condition_run (lines 125-128): raises an Exception unless the
\* flag is set.  No method of BaseTask calls it.
CheckConditionRunRaises(t) == ~job_run_check[t]

\* Mutant of PrepRun: the mutex file is removed when the work is over.
PrepRunCleansMutex(t) ==
    /\ alive[t] /\ pc[t] = "idle" /\ SumOver(runs, Procs) < MaxRuns
    /\ runs' = [runs EXCEPT ![t] = @ + 1]
    /\ last_op' = [last_op EXCEPT ![t] = "_prep_run"]
    /\ main_unchecked' = [main_unchecked EXCEPT ![t] = @ \/ ~job_run_check[t]]
    /\ fs' = fs \ {mutex_file[t]}
    /\ \/ /\ main_result' = [main_result EXCEPT ![t] = "returned"]
          /\ result' = [result EXCEPT ![t] = "returned"]
          /\ log' = [log EXCEPT ![t] = <<>>]
          /\ UNCHANGED << alive, exit_code >>
       \/ /\ main_result' = [main_result EXCEPT ![t] = "raised"]
          /\ log' = [log EXCEPT ![t] = << <<"ERROR", None>> >>]
          /\ ExitCode(t, 1)
    /\ UNCHANGED << config, stor, job_run_check, mutex_file, archive_file, pc,
                    override, calls, obs, start_fs, start_flag >>

\* BaseTask._prep_run (lines 166-193): the logging relay is installed, main()
\* is called; main() returns or raises an Exception, which is logged and turned
\* into _exit_code(interactive, 1).
PrepRun(t) ==
    /\ alive[t] /\ pc[t] = "idle" /\ SumOver(runs, Procs) < MaxRuns
    /\ runs' = [runs EXCEPT ![t] = @ + 1]
    /\ last_op' = [last_op EXCEPT ![t] = "_prep_run"]
    /\ main_unchecked' = [main_unchecked EXCEPT ![t] = @ \/ ~job_run_check[t]]
    /\ \/ /\ main_result' = [main_result EXCEPT ![t] = "returned"]
          /\ result' = [result EXCEPT ![t] = "returned"]
          /\ log' = [log EXCEPT ![t] = <<>>]
          /\ UNCHANGED << alive, exit_code >>
       \/ /\ main_result' = [main_result EXCEPT ![t] = "raised"]
          /\ log' = [log EXCEPT ![t] = << <<"ERROR", None>> >>]
          /\ ExitCode(t, 1)
    /\ UNCHANGED << fs, config, stor, job_run_check, mutex_file, archive_file, pc,
                    override, calls, obs, start_fs, start_flag >>

\* ----------------------------------------------------- specifications

Step(t) ==
    \/ SetMutex(t)
    \/ CallCheck(t)
    \/ RotateArchive(t)
    \/ CheckGate(t)
    \/ CreateMutex(t)
    \/ PrepRun(t)

\* The processes' steps interleave.
Next == \E t \in Procs : Step(t)

Spec == Init /\ [][Next]_vars

\* No interleaving: a process takes a step only while no other process is
\* inside check_run_conditions.
Alone(t) == \A u \in Procs \ {t} : pc[u] = "idle"

SeqNext ==
    \E t \in Procs :
        \/ Alone(t) /\ SetMutex(t)
        \/ Alone(t) /\ CallCheck(t)
        \/ Alone(t) /\ RotateArchive(t)
        \/ Alone(t) /\ CheckGate(t)
        \/ Alone(t) /\ CreateMutex(t)
        \/ Alone(t) /\ PrepRun(t)

SeqSpec == Init /\ [][SeqNext]_vars

\* ------------------------------------------------------------- properties

\* The last operation called on the Task was check_run_conditions, and it ended.
Ended(t) == pc[t] = "idle" /\ last_op[t] = "check_run_conditions"

\* How _exit_code ends a call.
HaltResults == {"SystemExit", "RuntimeError"}

\* The reason codes of section 7 (PreconditionHalt).
ReasonCodes ==
    {"ARCHIVE_FILE_FOUND", "STOP_FILE_FOUND", "DEP_FILES_MISSING", "MUTEX_FOUND"}

IsReason(e) == e[1] \in ReasonCodes

\* The reason codes logged, in the order logged.
Codes(lg) ==
    LET sel == SelectSeq(lg, IsReason) IN [i \in 1..Len(sel) |-> sel[i][1]]

IsWarning(e) == e[1] = "Required file not found"

\* The disk when the call started, as seen from the references it bound.
ArchiveAtStart(t) == archive_file[t] \in start_fs[t]
HaltAtStart(t) == Range(halt_files[t]) \cap start_fs[t] # {}
MissingAtStart(t) == Range(required_files[t]) \ start_fs[t] # {}
MutexAtStart(t) == mutex_file[t] # None /\ mutex_file[t] \in start_fs[t]

\* A step that ends a check_run_conditions call of t through _exit_code.
HaltStep(t) ==
    /\ pc[t] # "idle" \/ calls'[t] # calls[t]
    /\ pc'[t] = "idle"
    /\ result'[t] \in HaltResults

\* C1: the flag turns true only in the last step of a check_run_conditions call
\* whose checks all succeeded: the archive file was absent (or, with override,
\* found and then rotated away), no halt file was on disk, no required file was
\* missing and the mutex file was absent; a step that halts a call leaves the
\* flag and the disk alone, and a mutex file appears on disk only in the
\* last step of a call that sets the flag.
C1_FlagOnlyAfterGate ==
    [][\A t \in Procs :
         /\ (job_run_check'[t] /\ ~job_run_check[t]) =>
               /\ last_op[t] = "check_run_conditions" /\ pc[t] = "create"
               /\ \/ obs[t].archive = "absent"
                  \/ /\ obs[t].archive = "found" /\ override[t]
                     /\ obs[t].rotate \in {"rotated", "gone"}
               /\ obs[t].gate /\ obs[t].halt = {} /\ obs[t].missing = {}
               /\ obs[t].mutex \in {"absent", "unbound"}
         /\ HaltStep(t) =>
               /\ job_run_check'[t] = job_run_check[t]
               /\ fs' = fs
         /\ (mutex_file'[t] # None /\ mutex_file'[t] \in fs' \ fs) =>
               \E u \in Procs : pc[u] = "create" /\ pc'[u] = "idle"
                                /\ job_run_check'[u]
      ]_vars

C1_Witness ==
    \E t, u \in Procs :
        /\ t # u /\ Ended(t) /\ Ended(u)
        /\ job_run_check[t] /\ result[t] = "returned" /\ obs[t].rotate = "rotated"
        /\ result[u] \in HaltResults /\ ~job_run_check[u]

\* C2: whenever the flag is set, the same call has created the mutex file:
\* the step that sets the flag leaves the bound mutex file on disk and the
\* call returns.
C2_FlagImpliesMutexCreated ==
    [][\A t \in Procs :
         (job_run_check'[t] /\ ~job_run_check[t]) =>
             /\ mutex_file[t] # None
             /\ mutex_file[t] \in fs'
             /\ result'[t] = "returned"
      ]_vars

\* C3: main() is never executed while the flag is false.
C3_MainOnlyAfterPass == \A t \in Procs : ~main_unchecked[t]

\* The call reached the mutex check of line 159 (no halt file, no required file
\* missing) and the mutex file was absent then.
SawMutexAbsent(t) ==
    obs[t].gate /\ obs[t].halt = {} /\ obs[t].missing = {} /\ obs[t].mutex = "absent"

\* C4: the mutex does not exclude: a call that saw the mutex absent at line 159
\* ends passed with the mutex file created (unless the create itself failed),
\* whatever another process bound to the same path did in between; the witness
\* is the state where two processes have both done so.
C4_MutexNotExclusive ==
    \A t \in Procs :
        (Ended(t) /\ SawMutexAbsent(t) /\ obs[t].create # "failed") =>
            /\ job_run_check[t]
            /\ result[t] = "returned"
            /\ obs[t].create = "done"
            /\ mutex_file[t] \in fs

C4_Witness ==
    \E t, u \in Procs :
        /\ t # u /\ mutex_file[t] = mutex_file[u]
        /\ \A v \in {t, u} :
              /\ Ended(v) /\ calls[v] = 1
              /\ mutex_file[v] \notin start_fs[v]
              /\ SawMutexAbsent(v) /\ obs[v].create = "done"
              /\ job_run_check[v] /\ result[v] = "returned"

\* C5: without interleaving, a call that starts with its mutex file on disk
\* (as after another Task's pass), the archive absent, no halt file and every
\* required file present halts with MUTEX_FOUND, with exit code 0 when not
\* interactive, and leaves the flag as it was.
C5_SecondHaltsOnMutex ==
    \A u \in Procs :
        ( /\ Ended(u) /\ MutexAtStart(u)
          /\ ~ArchiveAtStart(u) /\ ~HaltAtStart(u) /\ ~MissingAtStart(u) ) =>
            /\ Codes(log[u]) = <<"MUTEX_FOUND">>
            /\ job_run_check[u] = start_flag[u]
            /\ IF interactive[u]
               THEN result[u] = "RuntimeError" /\ alive[u]
               ELSE result[u] = "SystemExit" /\ ~alive[u] /\ exit_code[u] = 0

C5_Witness ==
    \E t, u \in Procs :
        /\ t # u /\ mutex_file[t] = mutex_file[u]
        /\ job_run_check[t] /\ obs[t].create = "done"
        /\ mutex_file[t] \notin start_fs[t]
        /\ Ended(u) /\ MutexAtStart(u)
        /\ ~ArchiveAtStart(u) /\ ~HaltAtStart(u) /\ ~MissingAtStart(u)
        /\ Codes(log[u]) = <<"MUTEX_FOUND">>
        /\ ~interactive[u] /\ ~alive[u] /\ exit_code[u] = 0
        /\ ~job_run_check[u]

\* The first halting condition, in the order of the code, that held when the
\* call started; "none" when none held.
FirstHalt(t) ==
    IF ArchiveAtStart(t) /\ ~override[t] THEN "ARCHIVE_FILE_FOUND"
    ELSE IF HaltAtStart(t) THEN "STOP_FILE_FOUND"
    ELSE IF MissingAtStart(t) THEN "DEP_FILES_MISSING"
    ELSE IF MutexAtStart(t) THEN "MUTEX_FOUND"
    ELSE "none"

\* C6 as stated: a call that starts with halting conditions halts and logs
\* the reason code of the first of them, and no other reason code.
C6_OnlyFirstReasonLogged ==
    \A t \in Procs :
        (Ended(t) /\ FirstHalt(t) # "none") =>
            /\ result[t] \in HaltResults
            /\ Codes(log[t]) = <<FirstHalt(t)>>

\* C6 as amended: a call that starts with halting conditions halts at the first
\* of them in the order archive (no override), halt file, required file,
\* mutex; the reason codes it logs are that one, preceded by ARCHIVE_FILE_FOUND
\* when the archive existed and override had it rotated; a halt on a halt file
\* comes before any required file is examined, and a halt on the archive before
\* the other checks.
C6_FirstReasonHalts ==
    \A t \in Procs :
        (Ended(t) /\ FirstHalt(t) # "none") =>
            /\ result[t] \in HaltResults
            /\ Codes(log[t]) =
                 (IF ArchiveAtStart(t) /\ override[t]
                  THEN <<"ARCHIVE_FILE_FOUND">> ELSE <<>>) \o <<FirstHalt(t)>>
            /\ FirstHalt(t) = "STOP_FILE_FOUND" => SelectSeq(log[t], IsWarning) = <<>>
            /\ FirstHalt(t) = "ARCHIVE_FILE_FOUND" => ~obs[t].gate

C6_Witness ==
    \E t \in Procs :
        /\ Ended(t) /\ override[t] /\ ArchiveAtStart(t)
        /\ Cardinality(Range(halt_files[t]) \cap start_fs[t]) = 1
        /\ MissingAtStart(t) /\ MutexAtStart(t)
        /\ result[t] \in HaltResults
        /\ Codes(log[t]) = <<"ARCHIVE_FILE_FOUND", "STOP_FILE_FOUND">>

\* C7: without interleaving, when the archive file exists as the call starts:
\* with override it is renamed aside before the halt files, the required files
\* and the mutex are looked at, and the call then passes when those checks
\* succeed; without override the call halts with ARCHIVE_FILE_FOUND.
C7_OverrideRotates ==
    \A t \in Procs :
        /\ (pc[t] \in {"gate", "create"} /\ obs[t].archive = "found") =>
              /\ override[t]
              /\ archive_file[t] \notin fs
              /\ Rotated(archive_file[t]) \in fs
        /\ (Ended(t) /\ ArchiveAtStart(t)) =>
              IF override[t]
              THEN /\ archive_file[t] \notin fs
                   /\ Rotated(archive_file[t]) \in fs
                   /\ (~HaltAtStart(t) /\ ~MissingAtStart(t) /\ ~MutexAtStart(t)) =>
                         job_run_check[t] /\ result[t] \notin HaltResults
              ELSE /\ result[t] \in HaltResults
                   /\ Codes(log[t]) = <<"ARCHIVE_FILE_FOUND">>

C7_Witness ==
    \E t \in Procs :
        /\ Ended(t) /\ ArchiveAtStart(t) /\ override[t]
        /\ archive_file[t] \notin fs /\ Rotated(archive_file[t]) \in fs
        /\ job_run_check[t] /\ result[t] = "returned"

\* C8: a call with override false that starts with the archive absent, no halt
\* file, every required file present and the mutex file absent returns
\* normally, with the mutex file created and the flag set (a create that the
\* filesystem refuses set aside).
C8_GoodStartPasses ==
    \A t \in Procs :
        ( /\ Ended(t) /\ ~override[t]
          /\ ~ArchiveAtStart(t) /\ ~HaltAtStart(t) /\ ~MissingAtStart(t)
          /\ ~MutexAtStart(t)
          /\ obs[t].create # "failed" ) =>
            /\ result[t] = "returned"
            /\ mutex_file[t] # None /\ mutex_file[t] \in fs
            /\ job_run_check[t]

\* What a call saw on disk makes it halt.
HaltSeen(t) ==
    \/ obs[t].archive = "found" /\ ~override[t]
    \/ obs[t].gate /\ (obs[t].halt # {} \/ obs[t].missing # {} \/ obs[t].mutex = "found")

\* C9: a call that saw a halting condition (archive found without override,
\* halt file, missing required file, mutex found) does not go on: it ends the
\* process with exit code 0 when not interactive, and raises RuntimeError with
\* the process alive when interactive; it never returns normally.
C9_HaltExits ==
    \A t \in Procs :
        (last_op[t] = "check_run_conditions" /\ HaltSeen(t)) =>
            /\ pc[t] = "idle"
            /\ IF interactive[t]
               THEN result[t] = "RuntimeError" /\ alive[t]
               ELSE result[t] = "SystemExit" /\ ~alive[t] /\ exit_code[t] = 0

C9_Witness ==
    \E t, u \in Procs :
        /\ Ended(t) /\ HaltSeen(t) /\ interactive[t]
        /\ result[t] = "RuntimeError" /\ alive[t]
        /\ Ended(u) /\ HaltSeen(u) /\ ~interactive[u]
        /\ ~alive[u] /\ exit_code[u] = 0

\* C10: when main() raises inside _prep_run, the error is logged and the
\* process exits with code 1 when not interactive, or RuntimeError is raised
\* with the process alive when interactive; _prep_run does not return.
C10_WorkFailureExits ==
    \A t \in Procs :
        (last_op[t] = "_prep_run" /\ main_result[t] = "raised") =>
            /\ log[t] = << <<"ERROR", None>> >>
            /\ IF interactive[t]
               THEN result[t] = "RuntimeError" /\ alive[t]
               ELSE result[t] = "SystemExit" /\ ~alive[t] /\ exit_code[t] = 1

C10_Witness ==
    \E t \in Procs :
        /\ last_op[t] = "_prep_run" /\ main_result[t] = "raised"
        /\ ~interactive[t] /\ ~alive[t] /\ exit_code[t] = 1
        /\ log[t] = << <<"ERROR", None>> >>

\* ------------------------------------------------ Storage used on its own
\* The operations of one Storage object called by its owner, one call after
\* another, with no Task around it.

\* The Task variables: no Task is running.
tasks == << has_mutex, has_archive, interactive, job_run_check, mutex_file,
            archive_file, halt_files, required_files, pc, override,
            alive, exit_code, last_op, result, log, calls, runs,
            main_result, obs, start_fs, start_flag, main_unchecked >>

NoTasks ==
    /\ has_mutex = [t \in Procs |-> TRUE]
    /\ has_archive = [t \in Procs |-> TRUE]
    /\ interactive = [t \in Procs |-> FALSE]
    /\ job_run_check = [t \in Procs |-> FALSE]
    /\ mutex_file = [t \in Procs |-> None]
    /\ archive_file = [t \in Procs |-> gen_location_ref(archive_loc, "tar.bz2", job_desc)]
    /\ halt_files = [t \in Procs |-> ConfigHaltFiles]
    /\ required_files = [t \in Procs |-> ConfigRequiredFiles]
    /\ pc = [t \in Procs |-> "idle"]
    /\ override = [t \in Procs |-> FALSE]
    /\ alive = [t \in Procs |-> TRUE]
    /\ exit_code = [t \in Procs |-> 0]
    /\ last_op = [t \in Procs |-> "none"]
    /\ result = [t \in Procs |-> "none"]
    /\ log = [t \in Procs |-> <<>>]
    /\ calls = [t \in Procs |-> 0]
    /\ runs = [t \in Procs |-> 0]
    /\ main_result = [t \in Procs |-> "none"]
    /\ obs = [t \in Procs |-> Unseen]
    /\ start_fs = [t \in Procs |-> {}]
    /\ start_flag = [t \in Procs |-> FALSE]
    /\ main_unchecked = [t \in Procs |-> FALSE]

\* The record of a Storage operation that has ended: its name, its argument,
\* how it ended, the warnings and errors it logged, the Storage and the disk
\* it was called on and, for a delete_from_archive_list that follows an
\* add_to_archive_list, the argument of that add and the Storage it was
\* called on.
Called(name, arg, res, lg) ==
    [ name |-> name, arg |-> arg, result |-> res, log |-> lg,
      storage |-> storage, fs |-> fs,
      prev |-> IF name = "delete_from_archive_list" /\ sop.name = "add_to_archive_list"
               THEN [ added |-> TRUE, arg |-> sop.arg, storage |-> sop.storage ]
               ELSE NoAdd ]

\* ---------------------------------------------------------- location groups

\* Number of distinct locations the owner adds to or deletes from the groups.
MaxLocs == 2

LocNames == <<"out1", "out2", "out3", "out4">>

GroupLocs == { JoinLoc(data_loc, <<LocNames[i]>>) : i \in 1..MaxLocs }

\* No two entries of the list are equal.
DupFree(list) ==
    \A i, j \in 1..Len(list) : i # j => list[i] # list[j]

DupFreeLists(S) ==
    { l \in UNION { [1..n -> S] : n \in 0..Cardinality(S) } : DupFree(l) }

\* Storage.__search_storage_group (lines 292-298): the index of the first entry
\* equal to stor_obj.  Indices count from 1 here, and 0 stands for Python's -1.
RECURSIVE SearchLoop(_, _, _)
SearchLoop(stor_list, stor_obj, index) ==
    IF index > Len(stor_list) THEN 0
    ELSE IF stor_list[index] = stor_obj THEN index
    ELSE SearchLoop(stor_list, stor_obj, index + 1)

search_storage_group(stor_list, stor_obj) == SearchLoop(stor_list, stor_obj, 1)

\* Storage.__check_storage_group (lines 308-311)
check_storage_group(stor_list, stor_obj) ==
    search_storage_group(stor_list, stor_obj) # 0

\* list.pop(index)
Pop(list, index) ==
    SubSeq(list, 1, index - 1) \o SubSeq(list, index + 1, Len(list))

\* Mutant of add_to_group: the location is appended without the membership test.
add_to_group_unchecked(stor_list, new_loc) ==
    [ list |-> Append(stor_list, new_loc), log |-> <<>> ]

\* Storage.__add_to_group (lines 313-318): the list afterwards and the warning.
add_to_group(stor_list, new_loc) ==
    IF check_storage_group(stor_list, new_loc)
    THEN [ list |-> stor_list,
           log |-> << <<"WARNING", "already attached to this group">> >> ]
    ELSE [ list |-> Append(stor_list, new_loc), log |-> <<>> ]

\* Mutant of delete_from_group: the index is not tested against -1, and
\* pop(-1) removes the last entry of a list that does not hold the location.
delete_from_group_untested(stor_list, bye_loc) ==
    LET index == search_storage_group(stor_list, bye_loc)
    IN  IF stor_list = <<>>
        THEN [ list |-> stor_list, log |-> << <<"WARNING", "not in group">> >> ]
        ELSE [ list |-> Pop(stor_list, IF index = 0 THEN Len(stor_list) ELSE index),
               log |-> <<>> ]

\* Mutant of delete_from_group: the entry before the one found is removed.
delete_from_group_off_by_one(stor_list, bye_loc) ==
    LET index == search_storage_group(stor_list, bye_loc)
    IN  IF index = 0
        THEN [ list |-> stor_list, log |-> << <<"WARNING", "not in group">> >> ]
        ELSE [ list |-> Pop(stor_list, IF index = 1 THEN Len(stor_list) ELSE index - 1),
               log |-> <<>> ]

\* Storage.__delete_from_group (lines 320-329)
delete_from_group(stor_list, bye_loc) ==
    LET index == search_storage_group(stor_list, bye_loc)
    IN  IF index = 0
        THEN [ list |-> stor_list, log |-> << <<"WARNING", "not in group">> >> ]
        ELSE [ list |-> Pop(stor_list, index), log |-> <<>> ]

\* The frame of an operation that touches neither the disk nor a Task.
StorageOnly == UNCHANGED << fs, tasks, arch >>

add_to_archive_list(new_loc) ==
    LET r == add_to_group(storage.archive_files, new_loc)
    IN  /\ storage' = [storage EXCEPT !.archive_files = r.list]
        /\ sop' = Called("add_to_archive_list", new_loc, "returned", r.log)
        /\ StorageOnly

delete_from_archive_list(old_loc) ==
    LET r == delete_from_group(storage.archive_files, old_loc)
    IN  /\ storage' = [storage EXCEPT !.archive_files = r.list]
        /\ sop' = Called("delete_from_archive_list", old_loc, "returned", r.log)
        /\ StorageOnly

add_to_required_list(new_loc) ==
    LET r == add_to_group(storage.required_files, new_loc)
    IN  /\ storage' = [storage EXCEPT !.required_files = r.list]
        /\ sop' = Called("add_to_required_list", new_loc, "returned", r.log)
        /\ StorageOnly

delete_from_required_list(old_loc) ==
    LET r == delete_from_group(storage.required_files, old_loc)
    IN  /\ storage' = [storage EXCEPT !.required_files = r.list]
        /\ sop' = Called("delete_from_required_list", old_loc, "returned", r.log)
        /\ StorageOnly

add_to_halt_list(new_loc) ==
    LET r == add_to_group(storage.halt_files, new_loc)
    IN  /\ storage' = [storage EXCEPT !.halt_files = r.list]
        /\ sop' = Called("add_to_halt_list", new_loc, "returned", r.log)
        /\ StorageOnly

delete_from_halt_list(old_loc) ==
    LET r == delete_from_group(storage.halt_files, old_loc)
    IN  /\ storage' = [storage EXCEPT !.halt_files = r.list]
        /\ sop' = Called("delete_from_halt_list", old_loc, "returned", r.log)
        /\ StorageOnly

\* A Storage constructed with any duplicate-free groups, on an empty disk.
GroupInit ==
    /\ NoTasks
    /\ fs = {}
    /\ \E a, r, h \in DupFreeLists(GroupLocs) :
           storage = NewStorage(job_desc, a, r, h)
    /\ sop = NoOp
    /\ arch = NoArchive

GroupNext ==
    \E x \in GroupLocs :
        \/ add_to_archive_list(x)
        \/ delete_from_archive_list(x)
        \/ add_to_required_list(x)
        \/ delete_from_required_list(x)
        \/ add_to_halt_list(x)
        \/ delete_from_halt_list(x)

GroupSpec == GroupInit /\ [][GroupNext]_vars

\* The three groups of a Storage record.
Groups(st) == << st.archive_files, st.required_files, st.halt_files >>

AddOps == {"add_to_archive_list", "add_to_required_list", "add_to_halt_list"}
DeleteOps ==
    {"delete_from_archive_list", "delete_from_required_list", "delete_from_halt_list"}

\* The group of the Storage record st that the operation named works on.
GroupOf(name, st) ==
    IF name \in {"add_to_archive_list", "delete_from_archive_list"}
    THEN st.archive_files
    ELSE IF name \in {"add_to_required_list", "delete_from_required_list"}
    THEN st.required_files
    ELSE st.halt_files

\* C13: in every state of a Storage whose groups started duplicate-free, after
\* any sequence of add_to_* and delete_from_* calls, no group of the three
\* holds two equal locations.
C13_GroupsDuplicateFree ==
    /\ DupFree(storage.archive_files)
    /\ DupFree(storage.required_files)
    /\ DupFree(storage.halt_files)

C13_Witness ==
    /\ sop.name \in AddOps
    /\ sop.arg \in Range(GroupOf(sop.name, sop.storage))
    /\ \A i \in 1..3 : Len(Groups(storage)[i]) = MaxLocs

\* delete_from_archive_list(x) was called right after add_to_archive_list(x).
AddThenDelete ==
    /\ sop.name = "delete_from_archive_list"
    /\ sop.prev.added
    /\ sop.prev.arg = sop.arg

\* C14 as stated: for every archive list L and every location x,
\* add_to_archive_list(x) followed by delete_from_archive_list(x) leaves the
\* archive list equal to L, entry by entry.
C14_AddDeleteRestores ==
    AddThenDelete => storage.archive_files = sop.prev.storage.archive_files

\* C14 as amended: for every archive list L and every location x that is not
\* in L, add_to_archive_list(x) followed by delete_from_archive_list(x) leaves
\* the archive list equal to L, entry by entry.
C14_AddDeleteRestoresNew ==
    ( AddThenDelete
      /\ sop.arg \notin Range(sop.prev.storage.archive_files) ) =>
        storage.archive_files = sop.prev.storage.archive_files

C14_Witness ==
    /\ AddThenDelete
    /\ sop.arg \notin Range(sop.prev.storage.archive_files)
    /\ Len(sop.prev.storage.archive_files) = MaxLocs - 1
    /\ Len(sop.storage.archive_files) = MaxLocs
    /\ storage.archive_files = sop.prev.storage.archive_files

IsGroupWarning(e) == e[1] = "WARNING"

\* The number of entries of the list equal to x.
Copies(list, x) == Cardinality({ i \in 1..Len(list) : list[i] = x })

\* C15: an add of a location that is already in the group, and a delete of a
\* location that is not in the group, each log one warning, return normally
\* and leave the three groups as they were; after the add of a location that
\* was already there the group holds exactly one copy of it.
C15_NoOpWarns ==
    /\ ( sop.name \in AddOps
         /\ sop.arg \in Range(GroupOf(sop.name, sop.storage)) ) =>
           /\ Len(SelectSeq(sop.log, IsGroupWarning)) = 1
           /\ sop.result = "returned"
           /\ Groups(storage) = Groups(sop.storage)
           /\ Copies(GroupOf(sop.name, storage), sop.arg) = 1
    /\ ( sop.name \in DeleteOps
         /\ sop.arg \notin Range(GroupOf(sop.name, sop.storage)) ) =>
           /\ Len(SelectSeq(sop.log, IsGroupWarning)) = 1
           /\ sop.result = "returned"
           /\ Groups(storage) = Groups(sop.storage)

C15_Witness ==
    /\ sop.name = "add_to_archive_list"
    /\ sop.arg \in Range(sop.storage.archive_files)
    /\ Len(SelectSeq(sop.log, IsGroupWarning)) = 1
    /\ Copies(storage.archive_files, sop.arg) = 1
    /\ Len(storage.archive_files) = MaxLocs

\* ------------------------------------------- file checks and create_archive

\* The result of a Python function that returns a bool.
PyBool(b) == IF b THEN "True" ELSE "False"

\* Storage.check_required_files (lines 500-513) called by the owner of the
\* Storage.
CallCheckRequiredFiles ==
    LET r == RequiredLoop(storage.required_files, 1, TRUE, <<>>)
    IN  /\ arch.pc = "idle"
        /\ sop' = Called("check_required_files", None, PyBool(r.passes), r.log)
        /\ UNCHANGED << storage, fs, tasks, arch >>

\* Mutant of ArchiveFilesLoop: the result of exists() is not looked at.
RECURSIVE ArchiveFilesLoopBlind(_, _)
ArchiveFilesLoopBlind(files, i) ==
    IF i > Len(files) THEN TRUE
    ELSE ArchiveFilesLoopBlind(files, i + 1)

\* lines 495-498: False at the first file that does not exist, else True.
RECURSIVE ArchiveFilesLoop(_, _)
ArchiveFilesLoop(files, i) ==
    IF i > Len(files) THEN TRUE
    ELSE IF ~Exists(files[i]) THEN FALSE
    ELSE ArchiveFilesLoop(files, i + 1)

\* Storage.check_archive_files (lines 487-498).  Without the argument, line 494
\* calls self.get_archive_list(), and get_archive_list is a property (lines
\* 262-265): the call is made on the list it returns and raises TypeError.
check_archive_files(given, archive_files) ==
    IF ~given THEN "TypeError"
    ELSE PyBool(ArchiveFilesLoop(archive_files, 1))

\* check_archive_files called by the owner of the Storage, without the argument
\* or with the Storage's own archive group.
CallCheckArchiveFiles(given) ==
    /\ arch.pc = "idle"
    /\ sop' = Called("check_archive_files", [given |-> given],
                     check_archive_files(given, storage.archive_files), <<>>)
    /\ UNCHANGED << storage, fs, tasks, arch >>

\* An archive location other than the Storage's archive_file.
OtherArchive == JoinLoc(archive_loc, <<"other", ".", "tar.bz2">>)

\* lines 447-452: the temporary archive, named {archive_loc.name}_tmp.tar.bz2,
\* in the tmp location when that is a LocalFile, else in ./tmp.
TmpArchive(target) ==
    JoinLoc(IF storage.tmp_local THEN storage.tmp_loc ELSE "cwd/tmp",
            target[2] \o <<"_tmp", ".", "tar.bz2">>)

\* Storage.create_archive, lines 439-455, called for the archive group of the
\* Storage (archive_files None, line 439), with or without a target: the
\* defaults are resolved and the sources checked; a missing source raises
\* RuntimeError.  When the tmp
\* location is not a LocalFile, ./tmp is made, which fails when it is there.
CreateArchive(target_given, cleanup) ==
    LET files  == storage.archive_files
        target == IF target_given THEN OtherArchive ELSE storage.archive_file
        call   == [ target_given |-> target_given, cleanup |-> cleanup ]
        this   == [ pc |-> "idle", files |-> files, target |-> target,
                    cleanup |-> cleanup, tmp |-> TmpArchive(target),
                    moved |-> FALSE ]
    IN  /\ arch.pc = "idle"
        /\ IF check_archive_files(TRUE, files) # "True"
           THEN /\ sop' = Called("create_archive", call, "RuntimeError", <<>>)
                /\ arch' = this
           ELSE \/ /\ ~storage.tmp_local
                   /\ sop' = Called("create_archive", call, "FileExistsError", <<>>)
                   /\ arch' = this
                \/ /\ sop' = Called("create_archive", call, "running",
                                    IF Exists(TmpArchive(target))
                                    THEN << <<"ERROR", "Temporary archive file already exists">> >>
                                    ELSE <<>>)
                   /\ arch' = [this EXCEPT !.pc = "build"]
        /\ UNCHANGED << storage, fs, tasks >>

\* lines 456-462: tarfile.open creates the temporary archive and every source
\* is added to it; the build raises when a source is not there or the write
\* fails, and leaves what it has written of the temporary archive.
BuildArchive ==
    /\ arch.pc = "build"
    /\ fs' = fs \cup {arch.tmp}
    /\ \/ /\ arch' = [arch EXCEPT !.pc = "idle"]
          /\ sop' = [sop EXCEPT !.result = "build raised"]
       \/ /\ \A i \in 1..Len(arch.files) : Exists(arch.files[i])
          /\ arch' = [arch EXCEPT !.pc = "move"]
          /\ UNCHANGED sop
    /\ UNCHANGED << storage, tasks >>

\* LocalFile.move: the file is at the destination and no longer at the origin.
Move(from, to) == (fs \ {from}) \cup {to}

\* LocalFile.delete of each of the first k files of the list.
Delete(files, k) == fs \ { files[i] : i \in 1..k }

\* Mutant of MoveArchive: the sources are deleted before the move is tried.
MoveArchiveAfterCleanup ==
    /\ arch.pc = "move"
    /\ \/ /\ fs' = IF arch.cleanup THEN Delete(arch.files, Len(arch.files)) ELSE fs
          /\ arch' = [arch EXCEPT !.pc = "idle"]
          /\ sop' = [sop EXCEPT !.result = "move raised"]
       \/ /\ fs' = Move(arch.tmp, arch.target)
          /\ arch' = [arch EXCEPT !.pc = IF arch.cleanup THEN "cleanup" ELSE "idle",
                                  !.moved = TRUE]
          /\ sop' = [sop EXCEPT !.result = IF arch.cleanup THEN @ ELSE "returned"]
    /\ UNCHANGED << storage, tasks >>

\* line 463: the temporary archive is moved to the target, or the move raises;
\* without cleanup the call returns.
MoveArchive ==
    /\ arch.pc = "move"
    /\ \/ /\ UNCHANGED fs
          /\ arch' = [arch EXCEPT !.pc = "idle"]
          /\ sop' = [sop EXCEPT !.result = "move raised"]
       \/ /\ fs' = Move(arch.tmp, arch.target)
          /\ arch' = [arch EXCEPT !.pc = IF arch.cleanup THEN "cleanup" ELSE "idle",
                                  !.moved = TRUE]
          /\ sop' = [sop EXCEPT !.result = IF arch.cleanup THEN @ ELSE "returned"]
    /\ UNCHANGED << storage, tasks >>

\* lines 464-467: with cleanup, the sources are deleted in the order of the
\* list; a delete that raises ends the loop.
CleanupArchive ==
    /\ arch.pc = "cleanup"
    /\ \E k \in 0..Len(arch.files) :
          /\ fs' = Delete(arch.files, k)
          /\ sop' = [sop EXCEPT !.result = IF k = Len(arch.files) THEN "returned"
                                           ELSE "delete raised",
                                !.log = Append(@, <<"INFO", "Running cleanup">>)]
    /\ arch' = [arch EXCEPT !.pc = "idle"]
    /\ UNCHANGED << storage, tasks >>

\* A Storage constructed with any duplicate-free archive group, on a disk
\* that holds any of its sources, required files, archive and temporary
\* archive.
ArchiveInit ==
    /\ NoTasks
    /\ \E a \in DupFreeLists(GroupLocs), local \in BOOLEAN :
           storage = [NewStorage(job_desc, a, ConfigRequiredFiles, <<>>)
                        EXCEPT !.tmp_local = local]
    /\ fs \in SUBSET ( GroupLocs \cup {R1, R2}
                       \cup { gen_location_ref(archive_loc, "tar.bz2", job_desc),
                              JoinLoc(tmp_loc,
                                      gen_location_ref(archive_loc, "tar.bz2", job_desc)[2]
                                        \o <<"_tmp", ".", "tar.bz2">>) } )
    /\ sop = NoOp
    /\ arch = NoArchive

\* The file checks called by the owner, in any order.
CheckNext ==
    \/ CallCheckRequiredFiles
    \/ \E given \in BOOLEAN : CallCheckArchiveFiles(given)

CheckSpec == ArchiveInit /\ [][CheckNext]_vars

\* create_archive called by the owner, one call after another.
ArchiveNext ==
    \/ \E target_given, cleanup \in BOOLEAN :
           CreateArchive(target_given, cleanup)
    \/ BuildArchive
    \/ MoveArchive
    \/ CleanupArchive

ArchiveSpec == ArchiveInit /\ [][ArchiveNext]_vars

\* The sources of the create_archive call that were on disk when it was called
\* and are not any more.
Deleted == { f \in Range(arch.files) : f \in sop.fs /\ f \notin fs }

\* The create_archive call was made with a source that did not exist.
SourceMissing == \E f \in Range(arch.files) : f \notin sop.fs

\* C11: a create_archive call made while one of the archive sources does not
\* exist raises RuntimeError at once and leaves the disk as it was: nothing at
\* the target is created or replaced, no temporary archive is created and no
\* source is deleted, with cleanup and without.
C11_MissingSourceFails ==
    (sop.name = "create_archive" /\ SourceMissing) =>
        /\ sop.result = "RuntimeError"
        /\ arch.pc = "idle"
        /\ fs = sop.fs

C11_Witness ==
    /\ sop.name = "create_archive" /\ SourceMissing
    /\ sop.arg.cleanup
    /\ Range(arch.files) \cap sop.fs # {}
    /\ sop.result = "RuntimeError"
    /\ arch.target \notin fs /\ arch.tmp \notin fs
    /\ Range(arch.files) \cap sop.fs \subseteq fs

\* How a create_archive call ends before the cleanup.
FailedBeforeCleanup ==
    {"RuntimeError", "FileExistsError", "build raised", "move raised"}

\* C12: in a create_archive call a source is off the disk only when cleanup was
\* asked for and the temporary archive has been moved to the target; a call in
\* which the check, the build or the move fails has deleted no source; until
\* the move the target is on disk only if it was there before the call, and the
\* temporary archive is another path than the target.
C12_CleanupAfterMove ==
    sop.name = "create_archive" =>
        /\ Deleted # {} => (arch.cleanup /\ arch.moved /\ arch.target \in fs)
        /\ sop.result \in FailedBeforeCleanup => Deleted = {}
        /\ ~arch.moved => (arch.target \in fs <=> arch.target \in sop.fs)
        /\ arch.tmp # arch.target

C12_Witness ==
    /\ sop.name = "create_archive" /\ sop.result = "returned"
    /\ arch.cleanup /\ arch.moved
    /\ Len(arch.files) = MaxLocs
    /\ Deleted = Range(arch.files)
    /\ arch.target \notin sop.fs /\ arch.target \in fs
    /\ arch.tmp \notin fs

IsMissing(f) == f \notin fs

\* C16: check_required_files logs one "Required file not found" record for
\* every required location that does not exist, in the order of the group,
\* and returns True exactly when every required location exists.
C16_AllMissingReported ==
    sop.name = "check_required_files" =>
        LET miss == SelectSeq(storage.required_files, IsMissing)
        IN  /\ sop.log = [ i \in 1..Len(miss) |->
                             <<"Required file not found", miss[i]>> ]
            /\ sop.result = PyBool(miss = <<>>)

C16_Witness ==
    /\ sop.name = "check_required_files"
    /\ Len(storage.required_files) = 2
    /\ \A i \in 1..2 : storage.required_files[i] \notin fs
    /\ Len(sop.log) = 2
    /\ sop.result = "False"

\* C17: check_archive_files called without an argument returns a bool, True
\* exactly when every location of the Storage's archive group exists.
C17_DefaultArchiveCheck ==
    (sop.name = "check_archive_files" /\ ~sop.arg.given) =>
        sop.result = PyBool(\A f \in Range(storage.archive_files) : f \in fs)

\* --------------------------------------------- derived names and the mutex

\* Number of name tokens up to which the location setters are called.
MaxNameLen == 7

\* Number of mutex files on disk up to which create_mutex is called.
MaxMutexFiles == 1

\* The job_desc values of the owner, the parent locations it moves to and the
\* name prefixes it sets (None: the default of gen_location_ref).
JobDescs == { job_desc, <<"etl">> }
NewLocs == { "nfs" }
Prefixes == { None, task_name }

\* The name tokens before the first "." (str.split('.')[0]).
RECURSIVE FirstPart(_, _)
FirstPart(name, i) ==
    IF i > Len(name) \/ name[i] = "." THEN SubSeq(name, 1, i - 1)
    ELSE FirstPart(name, i + 1)

NotDate(tok) == tok # report_date_str

\* Storage.__get_stem_prefix (lines 288-290): the name up to the first ".",
\* with the report date string replaced by ''.
get_stem_prefix(loc) == SelectSeq(FirstPart(loc[2], 1), NotDate)

\* gen_location_ref with its default (lines 284-285): a name_prefix of None is
\* the job_desc of the Storage.
GenRef(storage_loc, suffix, name_prefix) ==
    gen_location_ref(storage_loc, suffix,
                     IF name_prefix = None THEN storage.job_desc ELSE name_prefix)

\* The frame of a setter.
SetterOnly == UNCHANGED << fs, tasks, arch >>

\* job_desc setter (lines 109-117): the one assignment of line 117.
set_job_desc(new_desc) ==
    /\ storage' = [storage EXCEPT !.job_desc = new_desc]
    /\ sop' = Called("job_desc", new_desc, "returned", <<>>)
    /\ SetterOnly

\* archive_loc setter (lines 195-208): the new parent is joined with
\* archive_{report_date_str}, and the archive_file setter (lines 215-225) is
\* called with the stem prefix of the current archive file.
set_archive_loc(new_loc) ==
    LET loc == JoinLoc(new_loc, <<"archive", "_", report_date_str>>)
    IN  /\ Len(storage.archive_file[2]) < MaxNameLen
        /\ storage' = [storage EXCEPT
                         !.archive_loc = loc,
                         !.archive_file =
                            GenRef(loc, "tar.bz2", get_stem_prefix(storage.archive_file))]
        /\ sop' = Called("archive_loc", new_loc, "returned", <<>>)
        /\ SetterOnly

\* mutex_loc setter (lines 232-243): line 242 sets the parent, line 243 calls
\* the mutex setter with the stem prefix of the current mutex; on an unbound
\* mutex (None) loc.name raises AttributeError.
set_mutex_loc(new_loc) ==
    /\ IF storage.mutex_file = None
       THEN /\ storage' = [storage EXCEPT !.mutex_loc = new_loc]
            /\ sop' = Called("mutex_loc", new_loc, "AttributeError", <<>>)
       ELSE /\ Len(storage.mutex_file[2]) < MaxNameLen
            /\ storage' = [storage EXCEPT
                             !.mutex_loc = new_loc,
                             !.mutex_file =
                                GenRef(new_loc, "mutex", get_stem_prefix(storage.mutex_file))]
            /\ sop' = Called("mutex_loc", new_loc, "returned", <<>>)
    /\ SetterOnly

\* mutex setter (lines 250-260)
set_mutex(name_prefix) ==
    /\ storage' = [storage EXCEPT
                     !.mutex_file = GenRef(storage.mutex_loc, "mutex", name_prefix)]
    /\ sop' = Called("mutex", name_prefix, "returned", <<>>)
    /\ SetterOnly

\* Storage.create_mutex (lines 469-476): mutex.create(), on None an
\* AttributeError; the create may fail (no write permission).
create_mutex ==
    /\ IF storage.mutex_file = None
       THEN /\ sop' = Called("create_mutex", None, "AttributeError", <<>>)
            /\ UNCHANGED fs
       ELSE \/ /\ Cardinality(fs \cup {storage.mutex_file}) <= MaxMutexFiles
               /\ fs' = Create(storage.mutex_file)
               /\ sop' = Called("create_mutex", None, "returned", <<>>)
            \/ /\ sop' = Called("create_mutex", None, "OSError", <<>>)
               /\ UNCHANGED fs
    /\ UNCHANGED << storage, tasks, arch >>

\* Storage.cleanup_mutex (lines 478-485): mutex.delete(), on None an
\* AttributeError; the delete may fail.
cleanup_mutex ==
    /\ IF storage.mutex_file = None
       THEN /\ sop' = Called("cleanup_mutex", None, "AttributeError", <<>>)
            /\ UNCHANGED fs
       ELSE \/ /\ fs' = fs \ {storage.mutex_file}
               /\ sop' = Called("cleanup_mutex", None, "returned", <<>>)
            \/ /\ sop' = Called("cleanup_mutex", None, "OSError", <<>>)
               /\ UNCHANGED fs
    /\ UNCHANGED << storage, tasks, arch >>

\* A Storage as constructed, for any job_desc, on an empty disk.
NameInit ==
    /\ NoTasks
    /\ fs = {}
    /\ \E jd \in JobDescs : storage = NewStorage(jd, <<>>, <<>>, <<>>)
    /\ sop = NoOp
    /\ arch = NoArchive

NameNext ==
    \/ \E new_desc \in JobDescs : set_job_desc(new_desc)
    \/ \E new_loc \in NewLocs : set_archive_loc(new_loc)
    \/ \E new_loc \in NewLocs : set_mutex_loc(new_loc)
    \/ \E name_prefix \in Prefixes : set_mutex(name_prefix)
    \/ create_mutex
    \/ cleanup_mutex

NameSpec == NameInit /\ [][NameNext]_vars

\* C18: after the job_desc setter has returned with a new value, archive_file
\* and mutex are the locations named {job_desc}_{report_date_str}.tar.bz2 and
\* {job_desc}_{report_date_str}.mutex for the new job_desc, under archive_loc
\* and mutex_loc, which are as they were.
C18_JobDescRegenerates ==
    ( sop.name = "job_desc" /\ sop.result = "returned"
      /\ sop.arg # sop.storage.job_desc ) =>
        /\ storage.archive_file =
             gen_location_ref(storage.archive_loc, "tar.bz2", storage.job_desc)
        /\ storage.mutex_file =
             gen_location_ref(storage.mutex_loc, "mutex", storage.job_desc)
        /\ storage.archive_loc = sop.storage.archive_loc
        /\ storage.mutex_loc = sop.storage.mutex_loc

\* C19: after the archive_loc setter, archive_file is under the new
\* archive_loc with the file name it had before; after the mutex_loc setter on
\* a Storage whose mutex is bound, mutex is under the new mutex_loc with the
\* file name it had before.
C19_LocSetterKeepsName ==
    /\ sop.name = "archive_loc" =>
          /\ storage.archive_file[1] = storage.archive_loc
          /\ storage.archive_file[2] = sop.storage.archive_file[2]
    /\ (sop.name = "mutex_loc" /\ sop.storage.mutex_file # None) =>
          /\ storage.mutex_file[1] = storage.mutex_loc
          /\ storage.mutex_file[2] = sop.storage.mutex_file[2]

\* The file name {name_prefix}_{report_date_str}.mutex, for some name prefix.
IsMutexName(name) ==
    /\ Len(name) > 4
    /\ SubSeq(name, Len(name) - 3, Len(name)) = <<"_", report_date_str, ".", "mutex">>

\* C20: in every state of a Storage, from construction on, mutex is the
\* location {name_prefix}_{report_date_str}.mutex under mutex_loc; a
\* create_mutex call that the filesystem does not refuse returns with that
\* file on disk, and a cleanup_mutex call that the filesystem does not refuse
\* returns with it off the disk.
C20_MutexDefined ==
    /\ storage.mutex_file # None
    /\ storage.mutex_file[1] = storage.mutex_loc
    /\ IsMutexName(storage.mutex_file[2])
    /\ (sop.name = "create_mutex" /\ sop.result # "OSError") =>
          sop.result = "returned" /\ storage.mutex_file \in fs
    /\ (sop.name = "cleanup_mutex" /\ sop.result # "OSError") =>
          sop.result = "returned" /\ storage.mutex_file \notin fs

\* ------------------------------------------------- the report date string

\* The run dates of the owner: year, month and day as strftime prints them.
RunDates ==
    { [ Y |-> "2022", m |-> "06", d |-> "05" ],
      [ Y |-> "2022", m |-> "06", d |-> "06" ],
      [ Y |-> "2023", m |-> "01", d |-> "05" ] }

\* The date postfix formats of the owner: the default of line 41 and two
\* others, as sequences of directives and literal text.
DateFormats ==
    { <<"%Y", "_", "%m", "_", "%d">>,
      <<"%Y", "%m", "%d">>,
      <<"%d", "-", "%m", "-", "%Y">> }

\* datetime.strftime: every directive is replaced by the field of the date it
\* names, the other text is kept.
strftime(date_time, fmt) ==
    [ i \in 1..Len(fmt) |->
        IF fmt[i] = "%Y" THEN date_time.Y
        ELSE IF fmt[i] = "%m" THEN date_time.m
        ELSE IF fmt[i] = "%d" THEN date_time.d
        ELSE fmt[i] ]

\* Storage.__init__, lines 43-44: the format is set, then the report date
\* string is set from the report date.  The Storage keeps the string only;
\* run_date is history: the datetime given last to the report_date_str setter.
NewDates(report_date, fmt) ==
    [ date_postfix_fmt |-> fmt,
      report_date_str  |-> strftime(report_date, fmt),
      run_date         |-> report_date ]

\* report_date_str setter (lines 76-84)
set_report_date_str(date_time) ==
    /\ storage' = [storage EXCEPT
                     !.report_date_str = strftime(date_time, storage.date_postfix_fmt),
                     !.run_date = date_time]
    /\ sop' = Called("report_date_str", date_time, "returned", <<>>)
    /\ SetterOnly

\* date_postfix_fmt setter (lines 91-102): the format is tried on now() and
\* then assigned.
set_date_postfix_fmt(new_fmt) ==
    /\ storage' = [storage EXCEPT !.date_postfix_fmt = new_fmt]
    /\ sop' = Called("date_postfix_fmt", new_fmt, "returned", <<>>)
    /\ SetterOnly

\* A Storage constructed for any report date and any format.
DateInit ==
    /\ NoTasks
    /\ fs = {}
    /\ \E report_date \in RunDates, fmt \in DateFormats :
           storage = NewDates(report_date, fmt)
    /\ sop = NoOp
    /\ arch = NoArchive

DateNext ==
    \/ \E date_time \in RunDates : set_report_date_str(date_time)
    \/ \E new_fmt \in DateFormats : set_date_postfix_fmt(new_fmt)

DateSpec == DateInit /\ [][DateNext]_vars

\* C21: after the date_postfix_fmt setter has returned, report_date_str is the
\* run date of the Storage formatted with the new format.
C21_FmtRederivesDate ==
    (sop.name = "date_postfix_fmt" /\ sop.result = "returned") =>
        storage.report_date_str = strftime(storage.run_date, storage.date_postfix_fmt)

\* ------------------------------------------------------ the core locations

\* A location of the StorageConfig as a path on disk: the location itself,
\* with no name joined to it.
DirOf(loc) == JoinLoc(loc, <<>>)

base_loc == "base"

\* Storage.__init__, lines 58-63: the locations taken from the StorageConfig.
\* No line of __init__ sets _report_dir: report_set is false until the
\* report_loc setter has run.
NewLocations ==
    [ base_loc    |-> DirOf(base_loc),
      data_loc    |-> DirOf(data_loc),
      tmp_loc     |-> DirOf(tmp_loc),
      report_set  |-> FALSE,
      report_dir  |-> None,
      archive_loc |-> DirOf(archive_loc),
      mutex_loc   |-> DirOf(mutex_loc) ]

\* report_loc setter (lines 176-188): the new parent joined with
\* reports_{report_date_str}.
set_report_loc(new_loc) ==
    /\ storage' = [storage EXCEPT
                     !.report_set = TRUE,
                     !.report_dir = JoinLoc(new_loc, <<"reports", "_", report_date_str>>)]
    /\ sop' = Called("report_loc", new_loc, "returned", <<>>)
    /\ SetterOnly

\* The locations check_required_locations goes through (lines 523-528), in
\* order, up to the report location when that is not set.
CoreLocations ==
    << storage.base_loc, storage.data_loc, storage.tmp_loc >>
    \o (IF storage.report_set
        THEN << storage.report_dir, storage.archive_loc, storage.mutex_loc >>
        ELSE <<>>)

\* Storage.__check_storage_loc (lines 300-306) on each of the first k
\* locations of the list: a location that is not there is created.
CheckStorageLocs(locs, k) == fs \cup { locs[i] : i \in 1..k }

\* Storage.check_required_locations (lines 515-529).  Reading self.report_loc
\* (line 526, getter of line 174) raises AttributeError when _report_dir is
\* not set; a create_loc that the filesystem refuses raises OSError.
check_required_locations ==
    /\ \E k \in 0..Len(CoreLocations) :
          /\ fs' = CheckStorageLocs(CoreLocations, k)
          /\ IF k < Len(CoreLocations)
             THEN /\ ~Exists(CoreLocations[k + 1])
                  /\ sop' = Called("check_required_locations", None, "OSError", <<>>)
             ELSE sop' = Called("check_required_locations", None,
                                IF storage.report_set THEN "returned"
                                ELSE "AttributeError", <<>>)
    /\ UNCHANGED << storage, tasks, arch >>

\* A Storage as constructed, on a disk that holds any of its locations.
LocationInit ==
    /\ NoTasks
    /\ storage = NewLocations
    /\ fs \in SUBSET { DirOf(base_loc), DirOf(data_loc), DirOf(tmp_loc),
                       DirOf(archive_loc), DirOf(mutex_loc) }
    /\ sop = NoOp
    /\ arch = NoArchive

LocationNext ==
    \/ \E new_loc \in NewLocs : set_report_loc(new_loc)
    \/ check_required_locations

LocationSpec == LocationInit /\ [][LocationNext]_vars

\* C22: a check_required_locations call on a constructed Storage, if the
\* filesystem refuses no creation, returns with the six core locations (base,
\* data, tmp, report, archive, mutex) on disk and with everything that was on
\* disk before still there; a call made when the six were there changes
\* nothing.
C22_LocationsCreated ==
    (sop.name = "check_required_locations" /\ sop.result # "OSError") =>
        /\ sop.result = "returned"
        /\ storage.report_set
        /\ { storage.base_loc, storage.data_loc, storage.tmp_loc,
             storage.report_dir, storage.archive_loc, storage.mutex_loc } \subseteq fs
        /\ sop.fs \subseteq fs
        /\ { storage.base_loc, storage.data_loc, storage.tmp_loc,
             storage.report_dir, storage.archive_loc, storage.mutex_loc }
             \subseteq sop.fs => fs = sop.fs

\* ------------------------------------------------ the gate over several calls

\* C23: Passed and Halted are terminal: a call that follows a call that
\* passed on the same Task does not halt, a call that follows a call that
\* halted (by exit or by RuntimeError) does not set the flag, and the flag is
\* true after a call only if that call did not halt.
C23_GateTerminal ==
    \A t \in Procs :
        last_op[t] = "check_run_conditions" =>
            /\ obs[t].prior = "passed" => result[t] \notin HaltResults
            /\ obs[t].prior = "halted" => ~(job_run_check[t] /\ ~start_flag[t])
            /\ (Ended(t) /\ job_run_check[t]) => result[t] \notin HaltResults

\* The disk a call of t leaves when all it did was rotate the archive file it
\* found with override.
RotatedFromStart(t) ==
    IF override[t] /\ archive_file[t] \in start_fs[t]
    THEN (start_fs[t] \ {archive_file[t]}) \cup {Rotated(archive_file[t])}
    ELSE start_fs[t]

\* C24 as stated: without interleaving, the step that halts a call leaves the
\* disk as it was when the call started, whatever the override and the
\* halting conditions.
C24_HaltLeavesDisk ==
    [][\A t \in Procs : HaltStep(t) => fs' = start_fs'[t]]_vars

\* C24 as amended: without interleaving, the step that halts a call leaves
\* the disk as it was when the call started, except that an archive file
\* that was found with override has been renamed aside; no mutex file has
\* been created and the archive file is not deleted.
C24_HaltOnlyRotates ==
    [][\A t \in Procs : HaltStep(t) => fs' = RotatedFromStart(t)']_vars

C24_Witness ==
    \E t \in Procs :
        /\ Ended(t) /\ result[t] \in HaltResults
        /\ override[t] /\ ArchiveAtStart(t)
        /\ obs[t].gate /\ obs[t].mutex = "absent" /\ obs[t].missing # {}
        /\ fs = RotatedFromStart(t)
        /\ fs # start_fs[t]
        /\ mutex_file[t] \notin fs

\* The mutex file a call of u found when it started was created by a gate
\* pass: the call of u before it, or the latest call of another Task bound to
\* the same mutex path.
CreatedByPass(u) ==
    /\ MutexAtStart(u)
    /\ \/ obs[u].prior = "passed"
       \/ \E t \in Procs \ {u} :
            mutex_file[t] = mutex_file[u] /\ obs[t].create = "done"

\* A step that ends a check_run_conditions call of u.
EndStep(u) ==
    /\ pc[u] # "idle" \/ calls'[u] # calls[u]
    /\ pc'[u] = "idle"

\* C25 as stated: no step of a Task removes a mutex file from the disk, whether the
\* step is a gate step or the work function returning, raising or ending the
\* process with code 1; and a check_run_conditions call that started with the
\* mutex file a gate pass created halts, the reason code it logs last being
\* MUTEX_FOUND.
C25_MutexStays ==
    [][ /\ \A t \in Procs :
             (mutex_file[t] # None /\ mutex_file[t] \in fs) => mutex_file[t] \in fs'
        /\ \A u \in Procs :
             (EndStep(u) /\ CreatedByPass(u)') =>
                 /\ result'[u] \in HaltResults
                 /\ Len(log'[u]) > 0
                 /\ log'[u][Len(log'[u])][1] = "MUTEX_FOUND"
      ]_vars

\* The call of u got as far as the mutex check of line 159: no halt file was
\* found and no required file was missing.
AtMutexCheck(u) == obs[u].gate /\ obs[u].halt = {} /\ obs[u].missing = {}

\* C25 as amended: no step of a Task removes a mutex file from the disk,
\* whether the step is a gate step or the work function returning, raising
\* or ending the process with code 1; and a check_run_conditions call that
\* started with the mutex file a gate pass created never passes, and halts
\* with MUTEX_FOUND as the reason code it logs last when it gets as far as
\* the mutex check.
C25_MutexBlocks ==
    [][ /\ \A t \in Procs :
             (mutex_file[t] # None /\ mutex_file[t] \in fs) => mutex_file[t] \in fs'
        /\ \A u \in Procs :
             (EndStep(u) /\ CreatedByPass(u)') =>
                 /\ result'[u] # "returned"
                 /\ job_run_check'[u] = start_flag'[u]
                 /\ AtMutexCheck(u)' =>
                      /\ result'[u] \in HaltResults
                      /\ Len(log'[u]) > 0
                      /\ log'[u][Len(log'[u])][1] = "MUTEX_FOUND"
      ]_vars

C25_Witness ==
    \E t, u \in Procs :
        /\ t # u
        /\ obs[t].create = "done" /\ job_run_check[t]
        /\ main_result[t] = "raised" /\ exit_code[t] = 1 /\ ~alive[t]
        /\ mutex_file[t] \in fs
        /\ Ended(u) /\ CreatedByPass(u) /\ AtMutexCheck(u)
        /\ result[u] \in HaltResults
        /\ log[u][Len(log[u])][1] = "MUTEX_FOUND"

====
